---- MODULE Spec2Model ----
(***************************************************************************)
(* Model of the import engine of dataframe-go: imports.LoadFromSQL         *)
(* (imports/sql.go) and imports.LoadFromJSON (imports/jsonl.go).           *)
(*                                                                         *)
(* Strings that the code parses are sequences of one-character strings,   *)
(* so that strconv.ParseInt and the literal comparisons of the code are    *)
(* computed and not assumed.  A stored cell is a record [t, v]: t is the   *)
(* Go type of the stored value, v its canonical text.                      *)
(***************************************************************************)
EXTENDS Integers, Sequences, FiniteSets, TLC

(***************************************************************************)
(* Bounds of the model.                                                    *)
(***************************************************************************)
MaxRows == 2
MaxK == 2
MaxRecords == 3

(***************************************************************************)
(* Lexical values.                                                         *)
(***************************************************************************)
Digits == {"0", "1", "2", "3", "4", "5", "6", "7", "8", "9"}

T_true == <<"t", "r", "u", "e">>
T_TRUE == <<"T", "R", "U", "E">>
T_True == <<"T", "r", "u", "e">>
T_tRUE == <<"t", "R", "U", "E">>
T_false == <<"f", "a", "l", "s", "e">>
T_FALSE == <<"F", "A", "L", "S", "E">>
T_False == <<"F", "a", "l", "s", "e">>
T_1 == <<"1">>
T_0 == <<"0">>
T_42 == <<"4", "2">>
T_neg7 == <<"-", "7">>
T_plus5 == <<"+", "5">>
T_007 == <<"0", "0", "7">>
T_abc == <<"a", "b", "c">>
T_empty == <<>>
T_1p5 == <<"1", ".", "5">>
T_minus == <<"-">>
T_maxInt == <<"9", "2", "2", "3", "3", "7", "2", "0", "3", "6", "8", "5", "4", "7", "7", "5", "8", "0", "7">>
T_overInt == <<"9", "2", "2", "3", "3", "7", "2", "0", "3", "6", "8", "5", "4", "7", "7", "5", "8", "0", "8">>
T_minInt == <<"-">> \o T_overInt
T_mysqlTime == <<"2", "0", "2", "1", "-", "0", "5", "-", "0", "1", " ", "1", "2", ":", "0", "0", ":", "0", "0">>
T_rfcTime == <<"2", "0", "2", "1", "-", "0", "5", "-", "0", "1", "T", "1", "2", ":", "0", "0", ":", "0", "0", "Z">>

AllTokens ==
  {T_true, T_TRUE, T_True, T_tRUE, T_false, T_FALSE, T_False, T_1, T_0, T_42,
   T_neg7, T_plus5, T_007, T_abc, T_empty, T_1p5, T_minus, T_maxInt,
   T_overInt, T_minInt, T_mysqlTime, T_rfcTime}

\* A column value as the driver hands it to Scan: SQL NULL or the bytes.
NULL == [null |-> TRUE, s |-> <<>>]
Raw(s) == [null |-> FALSE, s |-> s]

\* Stored cells.
NilCell == [t |-> "nil", v |-> <<>>]
Cell(t, v) == [t |-> t, v |-> v]

\* Result of a coercion: the stored value or the error of fmt.Errorf.
Ok(c) == [ok |-> TRUE, cell |-> c, fn |-> "none"]
OkBy(c, fn) == [ok |-> TRUE, cell |-> c, fn |-> fn]
Fail(target, fn) == [ok |-> FALSE, cell |-> Cell("error", <<target>>), fn |-> fn]

(***************************************************************************)
(* strconv.ParseInt(s, 10, 64), on the canonical text of the number.       *)
(***************************************************************************)
AllDigits(s) == \A i \in 1..Len(s) : s[i] \in Digits

RECURSIVE StripZeros(_)
StripZeros(s) ==
  IF Len(s) > 1 /\ s[1] = "0" THEN StripZeros(Tail(s)) ELSE s

DigitVal(c) ==
  CASE c = "0" -> 0 [] c = "1" -> 1 [] c = "2" -> 2 [] c = "3" -> 3
    [] c = "4" -> 4 [] c = "5" -> 5 [] c = "6" -> 6 [] c = "7" -> 7
    [] c = "8" -> 8 [] c = "9" -> 9

\* a <= b for digit strings without leading zeros
RECURSIVE LexLeq(_, _)
LexLeq(a, b) ==
  IF a = <<>> THEN TRUE
  ELSE IF DigitVal(a[1]) < DigitVal(b[1]) THEN TRUE
  ELSE IF DigitVal(a[1]) > DigitVal(b[1]) THEN FALSE
  ELSE LexLeq(Tail(a), Tail(b))

MagLeq(a, b) ==
  \/ Len(a) < Len(b)
  \/ Len(a) = Len(b) /\ LexLeq(a, b)

ParseInt(s) ==
  LET neg == Len(s) > 0 /\ s[1] = "-"
      signed == Len(s) > 0 /\ s[1] \in {"+", "-"}
      body == IF signed THEN Tail(s) ELSE s
      mag == StripZeros(body)
      limit == IF neg THEN T_overInt ELSE T_maxInt
  IN  IF body = <<>> \/ ~AllDigits(body) THEN [ok |-> FALSE, v |-> <<"syntax">>]
      ELSE IF ~MagLeq(mag, limit) THEN [ok |-> FALSE, v |-> <<"range">>]
      ELSE [ok |-> TRUE,
            v |-> IF neg /\ mag # T_0 THEN <<"-">> \o mag ELSE mag]

(***************************************************************************)
(* strconv.ParseFloat(s, 64) on the decimal grammar sign digits [. digits] *)
(* (the tokens of the model have no exponent, hex, inf or nan form).       *)
(***************************************************************************)
DotIndex(s) ==
  IF \E i \in 1..Len(s) : s[i] = "." THEN CHOOSE i \in 1..Len(s) : s[i] = "."
  ELSE 0

ParseFloat(s) ==
  LET signed == Len(s) > 0 /\ s[1] \in {"+", "-"}
      neg == Len(s) > 0 /\ s[1] = "-"
      body == IF signed THEN Tail(s) ELSE s
      d == DotIndex(body)
      ip == IF d = 0 THEN body ELSE SubSeq(body, 1, d - 1)
      fp == IF d = 0 THEN <<>> ELSE SubSeq(body, d + 1, Len(body))
      ipc == IF ip = <<>> THEN T_0 ELSE StripZeros(ip)
  IN  IF ~AllDigits(ip) \/ ~AllDigits(fp) \/ (ip = <<>> /\ fp = <<>>)
      THEN [ok |-> FALSE, v |-> <<"syntax">>]
      ELSE [ok |-> TRUE,
            v |-> (IF neg THEN <<"-">> ELSE <<>>) \o ipc \o
                  (IF fp = <<>> THEN <<>> ELSE <<".">> \o fp)]

(***************************************************************************)
(* time.Parse(layout, s) for the two layouts of the code: the text must    *)
(* have the layout's digits and separators; the value is the instant in    *)
(* the form yyyy-mm-dd hh:mm:ss (UTC).                                     *)
(***************************************************************************)
PostgreSQL == 0
MySQL == 1

DateTimeShape(s, sep) ==
  /\ Len(s) >= 19
  /\ \A i \in {1, 2, 3, 4, 6, 7, 9, 10, 12, 13, 15, 16, 18, 19} : s[i] \in Digits
  /\ s[5] = "-" /\ s[8] = "-" /\ s[11] = sep /\ s[14] = ":" /\ s[17] = ":"

TimeParse(database, s) ==
  IF database = MySQL
  THEN IF Len(s) = 19 /\ DateTimeShape(s, " ")
       THEN [ok |-> TRUE, v |-> s] ELSE [ok |-> FALSE, v |-> <<"layout">>]
  ELSE IF Len(s) = 20 /\ DateTimeShape(s, "T") /\ s[20] = "Z"
       THEN [ok |-> TRUE, v |-> [i \in 1..19 |-> IF i = 11 THEN " " ELSE s[i]]]
       ELSE [ok |-> FALSE, v |-> <<"layout">>]

\* time.Parse, then "assume unix timestamp"
ParseTime(database, s) ==
  LET t == TimeParse(database, s)
      sec == ParseInt(s)
  IN  IF t.ok THEN t
      ELSE IF sec.ok THEN [ok |-> TRUE, v |-> <<"@">> \o sec.v]
      ELSE [ok |-> FALSE, v |-> <<"time">>]

IsTrueToken(s) == s = T_true \/ s = T_TRUE \/ s = T_True \/ s = T_1
IsFalseToken(s) == s = T_false \/ s = T_FALSE \/ s = T_False \/ s = T_0

(***************************************************************************)
(* Column metadata, type overrides and load options of LoadFromSQL.        *)
(***************************************************************************)
StringTypes == {"VARCHAR", "TEXT", "NVARCHAR", "MEDIUMTEXT", "LONGTEXT"}
FloatTypes == {"FLOAT", "FLOAT4", "FLOAT8", "DOUBLE", "DECIMAL", "NUMERIC"}
IntTypes == {"INT", "TINYINT", "INT2", "INT4", "INT8", "MEDIUMINT", "SMALLINT", "BIGINT"}
BoolTypes == {"BOOL"}
TimeTypes == {"DATETIME", "TIMESTAMP", "TIMESTAMPTZ"}
DriverTypes ==
  StringTypes \cup FloatTypes \cup IntTypes \cup BoolTypes \cup TimeTypes \cup {"", "JSONB"}

\* A value of the DictateDataType map: k is the dynamic type of the value;
\* a Converter carries its ConcreteType and its ConverterFunc.
Dictate(k) == [k |-> k, concrete |-> "", f |-> ""]
Converter(concrete, f) == [k |-> "Converter", concrete |-> concrete, f |-> f]
Dictates ==
  {Dictate("float64"), Dictate("int64"), Dictate("string"), Dictate("bool"),
   Dictate("time.Time"), Dictate("NewSerieser"), Dictate("int32"),
   Converter("time.Time", "fails"), Converter("uuid", "fails"),
   Converter("uuid", "wraps")}

\* A caller's ConverterFunc: one that rejects every input, one that wraps it.
ConverterFunc(f, s) ==
  IF f = "wraps" THEN OkBy(Cell("uuid", s), "ConverterFunc")
  ELSE Fail("generic data type", "ConverterFunc")

\* SQLLoadOptions; NoOptions is the nil pointer, NoCount the nil KnownRowCount.
NoCount == -1
NoOptions ==
  [nil |-> TRUE, KnownRowCount |-> NoCount, DictateDataType |-> <<>>,
   Database |-> PostgreSQL, Query |-> ""]
SQLLoadOptions(k, d, db) ==
  [nil |-> FALSE, KnownRowCount |-> k, DictateDataType |-> d,
   Database |-> db, Query |-> "SELECT"]

ColumnType(name, typ) == [Name |-> name, DatabaseTypeName |-> typ]

\* options != nil && len(options.DictateDataType) > 0 && exists
Dictated(options, name) ==
  ~options.nil /\ name \in DOMAIN options.DictateDataType

\* The series created for one column (the type of its storage).
NewSeriesFor(options, ct) ==
  LET name == ct.Name
      typ == ct.DatabaseTypeName
  IN  IF Dictated(options, name)
      THEN LET T == options.DictateDataType[name]
           IN  CASE T.k = "float64" -> "Float64"
                 [] T.k \in {"int64", "bool"} -> "Int64"
                 [] T.k = "string" -> "String"
                 [] T.k = "time.Time" -> "Time"
                 [] T.k = "NewSerieser" -> "Custom"
                 [] T.k = "Converter" ->
                      IF T.concrete = "time.Time" THEN "Time" ELSE "Generic"
                 [] OTHER -> "Generic"
      ELSE CASE typ \in StringTypes -> "String"
             [] typ \in FloatTypes -> "Float64"
             [] typ \in BoolTypes \cup IntTypes -> "Int64"
             [] typ \in TimeTypes -> "Time"
             [] OTHER -> "String"

ForceFloat(s) ==
  LET f == ParseFloat(s)
  IN  IF f.ok THEN OkBy(Cell("float64", f.v), "ParseFloat")
      ELSE Fail("float64", "ParseFloat")

ForceIntOrBool(s) ==
  LET n == ParseInt(s)
  IN  IF n.ok THEN OkBy(Cell("int64", n.v), "ParseInt")
      ELSE IF IsTrueToken(s) THEN OkBy(Cell("int64", T_1), "ParseInt")
      ELSE IF IsFalseToken(s) THEN OkBy(Cell("int64", T_0), "ParseInt")
      ELSE Fail("Int", "ParseInt")

ForceInt(s) ==
  LET n == ParseInt(s)
  IN  IF n.ok THEN OkBy(Cell("int64", n.v), "ParseInt")
      ELSE Fail("Int", "ParseInt")

ForceBool(s) ==
  IF IsTrueToken(s) THEN OkBy(Cell("int64", T_1), "compare")
  ELSE IF IsFalseToken(s) THEN OkBy(Cell("int64", T_0), "compare")
  ELSE Fail("bool", "compare")

ForceTime(database, s) ==
  LET t == ParseTime(database, s)
  IN  IF t.ok THEN OkBy(Cell("time.Time", t.v), "time.Parse")
      ELSE Fail("time.Time", "time.Parse")

\* The value stored for a non-NULL column value *val.
ForceValue(options, database, ct, s) ==
  LET fieldName == ct.Name
      colType == ct.DatabaseTypeName
  IN  IF Dictated(options, fieldName)
      THEN LET T == options.DictateDataType[fieldName]
           IN  CASE T.k = "float64" -> ForceFloat(s)
                 [] T.k = "int64" -> ForceInt(s)
                 [] T.k = "string" -> Ok(Cell("string", s))
                 [] T.k = "bool" -> ForceBool(s)
                 [] T.k = "time.Time" -> ForceTime(database, s)
                 [] T.k = "NewSerieser" -> Ok(Cell("string", s))
                 [] T.k = "Converter" -> ConverterFunc(T.f, s)
                 [] OTHER -> Ok(Cell("string", s))
      ELSE CASE colType \in StringTypes -> Ok(Cell("string", s))
             [] colType \in FloatTypes -> ForceFloat(s)
             [] colType \in IntTypes -> ForceInt(s)
             [] colType \in BoolTypes -> ForceBool(s)
             [] colType \in TimeTypes -> ForceTime(database, s)
             [] OTHER -> Ok(Cell("string", s))

ScanValueNoNilCheck(options, database, ct, raw) ==
  ForceValue(options, database, ct, raw.s)

\* One column of a scanned row: NULL is stored as nil before any coercion.
ScanValue(options, database, ct, raw) ==
  IF raw.null THEN Ok(NilCell)
  ELSE ForceValue(options, database, ct, raw.s)

(***************************************************************************)
(* The destination table (package dataframe): named series of equal        *)
(* length.  A row is a function from the column names to cells.            *)
(***************************************************************************)
NoDF == [nil |-> TRUE, names |-> <<>>, types |-> <<>>, rows |-> <<>>]

Range(f) == {f[i] : i \in DOMAIN f}

\* SeriesInit.Size rows are prefilled with nil; without init the series is empty.
NewDataFrame(names, types, init) ==
  [nil |-> FALSE, names |-> names, types |-> types,
   rows |-> [i \in 1..(IF init = NoCount THEN 0 ELSE init) |->
               [n \in Range(names) |-> NilCell]]]

NRows(df) == Len(df.rows)

\* Append(&DontLock, make([]interface{}, len(df.Series))...): one row of nils
AppendNil(df) ==
  [df EXCEPT !.rows = Append(df.rows, [n \in Range(df.names) |-> NilCell])]

\* UpdateRow(row, &DontLock, vals) updates the named series at index row;
\* Series.Update panics when the index is out of range.
UpdateRowPanics(df, idx, vals) ==
  DOMAIN vals # {} /\ ~(idx >= 0 /\ idx < NRows(df))

UpdateRow(df, idx, vals) ==
  IF DOMAIN vals = {} THEN df
  ELSE [df EXCEPT !.rows[idx + 1] =
          [n \in Range(df.names) |->
             IF n \in DOMAIN vals THEN vals[n] ELSE df.rows[idx + 1][n]]]

\* Remove(row) deletes the row at the index.
Remove(df, idx) ==
  [df EXCEPT !.rows = SubSeq(df.rows, 1, idx) \o SubSeq(df.rows, idx + 2, Len(df.rows))]

\* dataframe.Options of a table call
DontLock == [DontLock |-> TRUE]
DefaultOptions == [DontLock |-> FALSE]

(***************************************************************************)
(* State.                                                                  *)
(***************************************************************************)
VARIABLES
  call,        \* the function called: "LoadFromSQL", "LoadFromJSON", "" before the call
  pc,          \* position: "idle", "sql", "prepass", "json", "done"; "probe" for the coercion check
  cancelled,   \* ctx.Err() != nil
  stmt,        \* LoadFromSQL: the statement object passed
  options,     \* the load options of the call
  cols,        \* LoadFromSQL: rows.ColumnTypes()
  init,        \* SeriesInit.Size, NoCount when init is nil
  row,         \* rows begun so far
  df,          \* the table under construction
  ret,         \* what the call returned
  scanned,     \* the raw rows the source has handed out so far
  forced,      \* the coercion functions invoked so far: [row, field, fn]
  tableOps,    \* the table methods called so far: [op, opts, held]
  lockHeld,    \* the call holds the table's lock
  queried,     \* LoadFromSQL: the QueryContext form called, its query text
  r,           \* LoadFromJSON: the stream, a sequence of records
  offset,      \* LoadFromJSON: read position of the stream, in tokens
  tokenCount,  \* LoadFromJSON: open objects in the pre-pass
  knownFields, \* LoadFromJSON: the fields of the first row
  probe        \* coercion check: the column, value and result

vars ==
  <<call, pc, cancelled, stmt, options, cols, init, row, df, ret, scanned, forced,
    tableOps, lockHeld, queried, r, offset, tokenCount, knownFields,
    probe>>

sqlVars == <<stmt, cols, queried>>
jsonVars == <<r, offset, tokenCount, knownFields>>

(***************************************************************************)
(* Errors and return values.                                               *)
(***************************************************************************)
Err(msg, rowIdx, field) == [msg |-> msg, row |-> rowIdx, field |-> field]
NilErr == Err("nil", -1, "")
ErrNoRows == Err("no rows", -1, "")
CtxErr == Err("context canceled", -1, "")

Running == [state |-> "running", df |-> NoDF, err |-> NilErr]
Return(d, e) == [state |-> "returned", df |-> d, err |-> e]
AbortWithTable(e) == [state |-> "returned", df |-> df, err |-> e]

\* "return nil, err"
Abort(e) == Return(NoDF, e)
Panic(msg) == [state |-> "panicked", df |-> NoDF, err |-> Err(msg, -1, "")]


(***************************************************************************)
(* LoadFromSQL: inputs.                                                    *)
(***************************************************************************)
\* The statement objects: the four QueryContext signatures and an object
\* with none of them.
Stmts == {"*sql.Stmt", "*mysql.Stmt", "*sql.DB", "*mysql.DB", "string"}
queryContexter1(s) == s = "*sql.Stmt"
queryContexter2(s) == s = "*mysql.Stmt"
queryContexter3Any(s) == s \in {"*sql.DB", "string"}

queryContexter3(s) == s = "*sql.DB"
queryContexter4(s) == s = "*mysql.DB"

\* Result sets (column metadata) and, for each, a DictateDataType map.
Schemas ==
  { [cols |-> <<>>, dictate |-> <<>>],
    [cols |-> <<ColumnType("id", "INT8")>>, dictate |-> <<>>],
    [cols |-> <<ColumnType("id", "INT8"), ColumnType("name", "VARCHAR")>>,
     dictate |-> <<>>],
    [cols |-> <<ColumnType("flag", "BOOL"), ColumnType("name", "VARCHAR")>>,
     dictate |-> [n \in {"name"} |-> Converter("uuid", "fails")]],
    [cols |-> <<ColumnType("id", "INT8"), ColumnType("created", "TIMESTAMP")>>,
     dictate |-> [n \in {"id"} |-> Dictate("bool")]] }

Databases == {PostgreSQL, MySQL, 2}
KnownRowCounts == {NoCount} \cup (0..MaxK)

\* The column values a cursor of the model hands to Scan.
ScanTokens == {NULL, Raw(T_1), Raw(T_abc)}

ColNames(cs) == [i \in DOMAIN cs |-> cs[i].Name]

(***************************************************************************)
(* LoadFromSQL: one scanned row.  The columns are forced in order; the     *)
(* first failure ends the row.                                             *)
(***************************************************************************)
RECURSIVE ForceRowSkipsFailures(_, _, _, _, _, _)
ForceRowSkipsFailures(opts, cs, raw, i, vals, calls) ==
  IF i > Len(cs) THEN [ok |-> TRUE, vals |-> vals, calls |-> calls, field |-> "", target |-> <<>>]
  ELSE LET ct == cs[i]
           v == ScanValue(opts, opts.Database, ct, raw[ct.Name])
           calls2 == IF v.fn = "none" THEN calls
                     ELSE calls \cup {[field |-> ct.Name, fn |-> v.fn]}
       IN  ForceRowSkipsFailures(opts, cs, raw, i + 1,
                         IF v.ok
                         THEN [n \in DOMAIN vals \cup {ct.Name} |->
                                 IF n = ct.Name THEN v.cell ELSE vals[n]]
                         ELSE vals, calls2)

RECURSIVE ForceRow(_, _, _, _, _, _)
ForceRow(opts, cs, raw, i, vals, calls) ==
  IF i > Len(cs) THEN [ok |-> TRUE, vals |-> vals, calls |-> calls, field |-> "", target |-> <<>>]
  ELSE LET ct == cs[i]
           v == ScanValue(opts, opts.Database, ct, raw[ct.Name])
           calls2 == IF v.fn = "none" THEN calls
                     ELSE calls \cup {[field |-> ct.Name, fn |-> v.fn]}
       IN  IF v.ok
           THEN ForceRow(opts, cs, raw, i + 1,
                         [n \in DOMAIN vals \cup {ct.Name} |->
                            IF n = ct.Name THEN v.cell ELSE vals[n]], calls2)
           ELSE [ok |-> FALSE, vals |-> vals, calls |-> calls2,
                 field |-> ct.Name, target |-> v.cell.v]

\* "Remove unused preallocated rows from dataframe"
RECURSIVE Trim(_, _)
Trim(d, excess) ==
  IF excess <= 0 THEN d ELSE Trim(Remove(d, NRows(d) - 1), excess - 1)

Op(op, opts) == [op |-> op, opts |-> opts, held |-> lockHeld]

Finish(v) ==
  /\ pc' = "done"
  /\ ret' = v

(***************************************************************************)
(* LoadFromSQL: entry up to the creation of the table (sql.go 85-200).     *)
(***************************************************************************)
AppendOptionsLocking == DefaultOptions

\* the options of df.Append: &dataframe.DontLock
AppendOptions == DontLock

LoadFromSQLBegin(s, opts, schema, queryErr) ==
  /\ pc = "idle"
  /\ call' = "LoadFromSQL"
  /\ stmt' = s
  /\ options' = opts
  /\ row' = 0
  /\ init' = IF opts.nil THEN NoCount ELSE opts.KnownRowCount
  /\ UNCHANGED <<cancelled, scanned, forced, tableOps, lockHeld, jsonVars, probe>>
  /\ IF ~opts.nil /\ opts.Database # PostgreSQL /\ opts.Database # MySQL
     THEN /\ Finish(Abort(Err("invalid database", -1, "")))
          /\ UNCHANGED <<cols, df, queried>>
     ELSE IF ~(queryContexter1(s) \/ queryContexter2(s)
               \/ queryContexter3(s) \/ queryContexter4(s))
     THEN /\ Finish(Panic("is not a valid Stmt"))
          /\ UNCHANGED <<cols, df, queried>>
     ELSE /\ queried' =
               IF queryContexter1(s) \/ queryContexter2(s)
               THEN [form |-> "args", query |-> ""]
               ELSE [form |-> "query", query |-> IF opts.nil THEN "" ELSE opts.Query]
          /\ IF queryErr
             THEN /\ Finish(Abort(Err("query error", -1, "")))
                  /\ UNCHANGED <<cols, df>>
             ELSE /\ cols' = schema.cols
                  /\ IF Len(schema.cols) <= 0
                     THEN /\ Finish(Abort(Err("no series found", -1, "")))
                          /\ UNCHANGED df
                     ELSE /\ df' = NewDataFrame(
                                     ColNames(schema.cols),
                                     [i \in DOMAIN schema.cols |->
                                        NewSeriesFor(opts, schema.cols[i])],
                                     IF opts.nil THEN NoCount ELSE opts.KnownRowCount)
                          /\ pc' = "sql"
                          /\ UNCHANGED ret

(***************************************************************************)
(* LoadFromSQL: one iteration of "for rows.Next()" (sql.go 202-340).  The  *)
(* cursor hands out the row raw, or Scan fails.                            *)
(***************************************************************************)
LoadFromSQLRow(raw, scanErr) ==
  /\ pc = "sql"
  /\ row < MaxRows
  /\ row' = row + 1
  /\ UNCHANGED <<call, cancelled, options, init, lockHeld, sqlVars, jsonVars, probe>>
  /\ IF scanErr
     THEN /\ Finish(Abort(Err("scan error", -1, "")))
          /\ UNCHANGED <<df, scanned, forced, tableOps>>
     ELSE LET fr == ForceRow(options, cols, raw, 1, <<>>, {})
              d1 == IF init = NoCount THEN AppendNil(df) ELSE df
              ops1 == IF init = NoCount
                      THEN tableOps \cup {Op("Append", AppendOptions)}
                      ELSE tableOps
          IN  /\ scanned' = Append(scanned, raw)
              /\ forced' = forced \cup
                   {[row |-> row, field |-> c.field, fn |-> c.fn] : c \in fr.calls}
              /\ IF ~fr.ok
                 THEN /\ Finish(Abort(Err("can't force string", row, fr.field)))
                      /\ UNCHANGED <<df, tableOps>>
                 ELSE /\ tableOps' = ops1 \cup {Op("UpdateRow", DontLock)}
                      /\ IF UpdateRowPanics(d1, row, fr.vals)
                         THEN /\ df' = d1
                              /\ Finish(Panic("index out of range"))
                         ELSE /\ df' = UpdateRow(d1, row, fr.vals)
                              /\ UNCHANGED <<pc, ret>>

(***************************************************************************)
(* LoadFromSQL: rows.Next() is false (sql.go 341-362).  cursorErr is what  *)
(* rows.Err() reports.                                                     *)
(***************************************************************************)
Excess(size, d) == size - NRows(d)

LoadFromSQLEnd(cursorErr) ==
  /\ pc = "sql"
  /\ UNCHANGED <<call, cancelled, options, init, row, scanned, forced,
                 lockHeld, sqlVars, jsonVars, probe>>
  /\ IF cursorErr # NilErr
     THEN /\ Finish(Abort(cursorErr))
          /\ UNCHANGED <<df, tableOps>>
     ELSE IF df.nil
     THEN /\ Finish(Abort(ErrNoRows))
          /\ UNCHANGED <<df, tableOps>>
     ELSE LET excess == IF init # NoCount THEN Excess(init, df) ELSE 0
              d1 == Trim(df, excess)
          IN  /\ df' = d1
              /\ tableOps' = IF excess > 0
                             THEN tableOps \cup {Op("Remove", DefaultOptions)}
                             ELSE tableOps
              /\ Finish(Return(d1, NilErr))

\* What rows.Err() can report: nothing, a driver error, or the context's
\* error once the driver has noticed the cancellation.
CursorErrs ==
  {NilErr, Err("rows error", -1, "")} \cup (IF cancelled THEN {CtxErr} ELSE {})

(***************************************************************************)
(* The caller cancels the context.                                         *)
(***************************************************************************)
Cancel ==
  /\ pc \in {"idle", "sql", "prepass", "json"}
  /\ ~cancelled
  /\ cancelled' = TRUE
  /\ UNCHANGED <<call, pc, options, init, row, df, ret, scanned, forced,
                 tableOps, lockHeld, sqlVars, jsonVars, probe>>

(***************************************************************************)
(* LoadFromJSON: inputs.  The stream is a sequence of top-level values: a  *)
(* JSON object (its scalar fields, and the fields of an object nested      *)
(* under the key "n") or a truncated object.                               *)
(***************************************************************************)
JV(j, s) == [j |-> j, s |-> s]
Object(top, nest) == [kind |-> "object", top |-> top, nest |-> nest]
Malformed == [kind |-> "malformed", top |-> <<>>, nest |-> <<>>]

Items ==
  { Object(("a" :> JV("number", T_1)) @@ ("b" :> JV("string", T_abc)), <<>>),
    Object(("a" :> JV("string", T_abc)) @@ ("b" :> JV("bool", T_true)), <<>>),
    Object(("a" :> JV("string", T_1)) @@ ("b" :> JV("null", <<>>))
             @@ ("c" :> JV("string", T_abc)), <<>>),
    Object(("a" :> JV("string", T_42)), ("b" :> JV("string", T_abc))),
    Malformed }

RECURSIVE SeqsUpTo(_, _)
SeqsUpTo(S, n) ==
  IF n = 0 THEN {<<>>}
  ELSE LET shorter == SeqsUpTo(S, n - 1)
       IN  shorter \cup {Append(q, x) : q \in {p \in shorter : Len(p) = n - 1}, x \in S}

Streams == SeqsUpTo(Items, MaxRecords)

JSONLoadOptions(large, d, strict) ==
  [none |-> FALSE, LargeDataSet |-> large, DictateDataType |-> d,
   ErrorOnUnknownFields |-> strict]
NoJSONOptions ==
  [none |-> TRUE, LargeDataSet |-> FALSE, DictateDataType |-> <<>>,
   ErrorOnUnknownFields |-> FALSE]

JSONDictates == {<<>>, [n \in {"a"} |-> Dictate("int64")]}

JSONOptions ==
  {NoJSONOptions} \cup
  {JSONLoadOptions(large, d, strict) :
     large \in BOOLEAN, d \in JSONDictates, strict \in BOOLEAN}

\* The tokens dec.Token() yields for one value: the delimiters, the keys and
\* scalars, and the syntax error where a truncated object ends.
Scalars(n) == [i \in 1..n |-> "scalar"]

Tokens(item) ==
  IF item.kind = "malformed" THEN <<"{", "scalar", "error">>
  ELSE <<"{">> \o Scalars(2 * Cardinality(DOMAIN item.top))
       \o (IF item.nest = <<>> THEN <<>>
           ELSE <<"scalar", "{">> \o Scalars(2 * Cardinality(DOMAIN item.nest)) \o <<"}">>)
       \o <<"}">>

RECURSIVE StreamTokens(_)
StreamTokens(stream) ==
  IF stream = <<>> THEN <<>> ELSE Tokens(Head(stream)) \o StreamTokens(Tail(stream))

\* The index of the value that starts at a read position, 0 when there is none.
RECURSIVE ItemAt(_, _, _)
ItemAt(stream, off, i) ==
  IF i > Len(stream) THEN 0
  ELSE IF off = 0 THEN i
  ELSE IF off < Len(Tokens(stream[i])) THEN 0
  ELSE ItemAt(stream, off - Len(Tokens(stream[i])), i + 1)

\* parseObject(raw, ""): the fields of nested objects get the key "n." + field
Flat(k) == CASE k = "a" -> "n.a" [] k = "b" -> "n.b" [] OTHER -> "n.c"

parseObject(item) ==
  [n \in DOMAIN item.top \cup {Flat(k) : k \in DOMAIN item.nest} |->
     IF n \in DOMAIN item.top THEN item.top[n]
     ELSE item.nest[CHOOSE k \in DOMAIN item.nest : Flat(k) = n]]

\* sort.Strings on the field names of the model
FieldOrder == <<"a", "b", "c", "n.a", "n.b", "n.c">>
SortStrings(names) == SelectSeq(FieldOrder, LAMBDA n : n \in Range(names))

Orders(S) ==
  {p \in [1..Cardinality(S) -> S] : \A i, j \in DOMAIN p : p[i] = p[j] => i = j}

JSONDictated(opts, name) ==
  ~opts.none /\ name \in DOMAIN opts.DictateDataType

\* The series created for a field of the first row (jsonl.go 111-147).
NewSeriesForField(opts, name) ==
  IF ~opts.none /\ DOMAIN opts.DictateDataType # {}
  THEN IF name \notin DOMAIN opts.DictateDataType THEN "String"
       ELSE LET T == opts.DictateDataType[name]
            IN  CASE T.k = "float64" -> "Float64"
                  [] T.k \in {"int64", "bool"} -> "Int64"
                  [] T.k = "string" -> "String"
                  [] T.k = "time.Time" -> "Time"
                  [] T.k = "NewSerieser" -> "Custom"
                  [] T.k = "Converter" ->
                       IF T.concrete = "time.Time" THEN "Time" ELSE "Generic"
                  [] OTHER -> "Generic"
  ELSE "String"

\* dictateForce(row, insertVals, name, typ, val): the value is coerced to the
\* dictated type; a null is stored as nil and nothing is coerced.
dictateForce(typ, val) ==
  IF val.j = "null" THEN Ok(NilCell)
  ELSE CASE typ.k = "float64" -> ForceFloat(val.s)
         [] typ.k = "int64" -> ForceInt(val.s)
         [] typ.k = "bool" -> ForceBool(val.s)
         [] typ.k = "time.Time" -> ForceTime(PostgreSQL, val.s)
         [] typ.k = "Converter" -> ConverterFunc(typ.f, val.s)
         [] OTHER -> Ok(Cell("string", val.s))

\* "Store value as a string"; the switch has no case for a null.
StoreAsString(val) ==
  CASE val.j = "string" -> [set |-> TRUE, cell |-> Cell("string", val.s)]
    [] val.j = "number" -> [set |-> TRUE, cell |-> Cell("string", val.s)]
    [] val.j = "bool" ->
         [set |-> TRUE, cell |-> Cell("string", IF val.s = T_true THEN T_1 ELSE T_0)]
    [] OTHER -> [set |-> FALSE, cell |-> NilCell]

\* One known field of a row: what is put in insertVals, or the error.
FieldValue(opts, name, val) ==
  IF JSONDictated(opts, name)
  THEN LET v == dictateForce(opts.DictateDataType[name], val)
       IN  [ok |-> v.ok, set |-> v.ok, cell |-> v.cell, fn |-> v.fn]
  ELSE LET v == StoreAsString(val)
       IN  [ok |-> TRUE, set |-> v.set, cell |-> v.cell, fn |-> "none"]

(***************************************************************************)
(* LoadFromJSON: the steps, as functions of the call's state S.            *)
(***************************************************************************)
JS ==
  [pc |-> pc, init |-> init, offset |-> offset, tokenCount |-> tokenCount,
   row |-> row, knownFields |-> knownFields, df |-> df, ret |-> ret,
   scanned |-> scanned, forced |-> forced, tableOps |-> tableOps]

Done(S, v) == [S EXCEPT !.pc = "done", !.ret = v]

SeekNowhere(off) == off

\* r.Seek(0, io.SeekStart)
SeekStart(off) == 0

\* One turn of the counting loop (jsonl.go 50-75): ctx.Err(), dec.Token().
PrepassToken(S, stream, ctxErr) ==
  LET toks == StreamTokens(stream)
  IN  IF ctxErr THEN Done(S, Abort(CtxErr))
      ELSE IF S.offset >= Len(toks)
      THEN [S EXCEPT !.offset = SeekStart(S.offset), !.pc = "json"]
      ELSE LET t == toks[S.offset + 1]
               count == IF t = "{" THEN S.tokenCount + 1
                        ELSE IF t = "}" THEN S.tokenCount - 1
                        ELSE S.tokenCount
           IN  IF t = "error"
               THEN Done(S, Abort(Err("decode error", -1, "")))
               ELSE [S EXCEPT !.offset = @ + 1,
                              !.tokenCount = count,
                              !.init = IF t = "}" /\ count = 0 THEN @ + 1 ELSE @]

ReorderColumns(d, names) ==
  [d EXCEPT !.names = names,
            !.types = [i \in DOMAIN names |->
                         d.types[CHOOSE j \in DOMAIN d.names : d.names[j] = names[i]]]]

JOp(S, op, opts) == [op |-> op, opts |-> opts, held |-> lockHeld]

\* After the loop (jsonl.go 273-282).
Finalize(S) ==
  IF S.df.nil THEN Done(S, Abort(ErrNoRows))
  ELSE LET d == ReorderColumns(S.df, SortStrings(S.df.names))
       IN  Done([S EXCEPT !.df = d,
                          !.tableOps = @ \cup {JOp(S, "ReorderColumns", DefaultOptions)}],
                Return(d, NilErr))

\* The fields of one row (jsonl.go 155-199, 210-263).  The fields are visited
\* in the order of a map iteration: the row fails with the error of whichever
\* failing field comes first, after any of the passing fields.
RowResults(S, opts, vals, known, rejected) ==
  LET fv(n) == FieldValue(opts, n, vals[n])
      failing == {n \in known : ~fv(n).ok}
      passing == known \ failing
      calls(V) == {[row |-> S.row - 1, field |-> n, fn |-> fv(n).fn] :
                     n \in {m \in V : fv(m).fn # "none"}}
      insertVals == [n \in {m \in known : fv(m).set} |-> fv(n).cell]
      d1 == IF S.init = NoCount THEN AppendNil(S.df) ELSE S.df
      ops1 == IF S.init = NoCount
              THEN S.tableOps \cup {JOp(S, "Append", AppendOptions)}
              ELSE S.tableOps
      S1 == [S EXCEPT !.forced = @ \cup calls(known),
                      !.tableOps = ops1 \cup {JOp(S, "UpdateRow", DontLock)}]
  IN  IF rejected \cup failing # {}
      THEN {Done([S EXCEPT !.forced = @ \cup calls(V)],
                 Abort(Err("unknown field encountered", S.row - 1, n))) :
              n \in rejected, V \in SUBSET passing}
           \cup
           {Done([S EXCEPT !.forced = @ \cup calls(V \cup {n})],
                 Abort(Err("can't force string", S.row - 1, n))) :
              n \in failing, V \in SUBSET passing}
      ELSE IF UpdateRowPanics(d1, S.row - 1, insertVals)
      THEN {Done([S1 EXCEPT !.df = d1], Panic("index out of range"))}
      ELSE {[S1 EXCEPT !.df = UpdateRow(d1, S.row - 1, insertVals)]}

\* The fields of a later row that are not fields of the first row.
UnknownFields(vals, known) == DOMAIN vals \ known

RejectedNever(opts, unknown) == {}

\* "unknown field": an error with ErrorOnUnknownFields, else skipped
Rejected(opts, unknown) ==
  IF ~opts.none /\ opts.ErrorOnUnknownFields THEN unknown ELSE {}

\* row == 1: "The first row determines which fields we use"
FirstRow(S, opts, vals) ==
  UNION {RowResults([S EXCEPT !.knownFields = DOMAIN vals,
                              !.df = NewDataFrame(
                                       names,
                                       [i \in DOMAIN names |-> NewSeriesForField(opts, names[i])],
                                       S.init)],
                    opts, vals, DOMAIN vals, {}) :
           names \in Orders(DOMAIN vals)}

LaterRow(S, opts, vals) ==
  RowResults(S, opts, vals, DOMAIN vals \cap S.knownFields,
             Rejected(opts, UnknownFields(vals, S.knownFields)))

\* One turn of the decoding loop (jsonl.go 86-271) or, at io.EOF, its end.
DecodeRow(S, stream, opts, ctxErr) ==
  LET i == ItemAt(stream, S.offset, 1)
  IN  IF ctxErr THEN {Done(S, Abort(CtxErr))}
      ELSE IF i = 0 THEN {Finalize(S)}
      ELSE IF stream[i].kind = "malformed"
      THEN {Done(S, Abort(Err("decode error", -1, "")))}
      ELSE LET S1 == [S EXCEPT !.row = @ + 1,
                               !.offset = @ + Len(Tokens(stream[i])),
                               !.scanned = Append(@, stream[i])]
               vals == parseObject(stream[i])
           IN  IF S1.row = 1 THEN FirstRow(S1, opts, vals)
               ELSE LaterRow(S1, opts, vals)

SetJ(t) ==
  /\ pc' = t.pc
  /\ init' = t.init
  /\ offset' = t.offset
  /\ tokenCount' = t.tokenCount
  /\ row' = t.row
  /\ knownFields' = t.knownFields
  /\ df' = t.df
  /\ ret' = t.ret
  /\ scanned' = t.scanned
  /\ forced' = t.forced
  /\ tableOps' = t.tableOps

\* Entry (jsonl.go 39-46, 79-85).
JEntry(opts) ==
  [pc |-> IF ~opts.none /\ opts.LargeDataSet THEN "prepass" ELSE "json",
   init |-> IF ~opts.none /\ opts.LargeDataSet THEN 0 ELSE NoCount,
   offset |-> 0, tokenCount |-> 0, row |-> 0, knownFields |-> {},
   df |-> NoDF, ret |-> Running, scanned |-> <<>>, forced |-> {},
   tableOps |-> {}]

LoadFromJSONBegin(stream, opts) ==
  /\ pc = "idle"
  /\ call' = "LoadFromJSON"
  /\ r' = stream
  /\ options' = opts
  /\ SetJ(JEntry(opts))
  /\ UNCHANGED <<cancelled, lockHeld, sqlVars, probe>>

LoadFromJSONToken ==
  /\ pc = "prepass"
  /\ SetJ(PrepassToken(JS, r, cancelled))
  /\ UNCHANGED <<call, cancelled, options, lockHeld, sqlVars, r, probe>>

LoadFromJSONRow ==
  /\ pc = "json"
  /\ \E t \in DecodeRow(JS, r, options, cancelled) : SetJ(t)
  /\ UNCHANGED <<call, cancelled, options, lockHeld, sqlVars, r, probe>>

SQLOptions(schema) ==
  {NoOptions} \cup
  {SQLLoadOptions(k, schema.dictate, db) : k \in KnownRowCounts, db \in Databases}

RawRows(cs) == [Range(ColNames(cs)) -> ScanTokens]

NoProbe == [ct |-> ColumnType("", ""), dictate |-> <<>>, database |-> PostgreSQL,
            raw |-> NULL, series |-> "", val |-> Ok(NilCell)]


\* Before the call: nothing has run.
Idle ==
  /\ call = ""
  /\ cancelled = FALSE
  /\ stmt = ""
  /\ options = NoOptions
  /\ cols = <<>>
  /\ init = NoCount
  /\ row = 0
  /\ df = NoDF
  /\ ret = Running
  /\ scanned = <<>>
  /\ forced = {}
  /\ tableOps = {}
  /\ lockHeld = FALSE
  /\ queried = [form |-> "none", query |-> ""]
  /\ r = <<>>
  /\ offset = 0
  /\ tokenCount = 0
  /\ knownFields = {}

Init ==
  /\ pc = "idle"
  /\ Idle
  /\ probe = NoProbe

SQLBegin ==
  /\ pc = "idle"
  /\ \E s \in Stmts, schema \in Schemas, queryErr \in BOOLEAN :
       \E opts \in SQLOptions(schema) :
         LoadFromSQLBegin(s, opts, schema, queryErr)

SQLRow ==
  /\ pc = "sql"
  /\ \E raw \in RawRows(cols), scanErr \in BOOLEAN : LoadFromSQLRow(raw, scanErr)

SQLEnd ==
  /\ pc = "sql"
  /\ \E e \in CursorErrs : LoadFromSQLEnd(e)

JSONBegin ==
  /\ pc = "idle"
  /\ \E stream \in Streams, opts \in JSONOptions :
       LoadFromJSONBegin(stream, opts)

Next ==
  \/ SQLBegin
  \/ SQLRow
  \/ SQLEnd
  \/ JSONBegin
  \/ LoadFromJSONToken
  \/ LoadFromJSONRow
  \/ Cancel

Spec == Init /\ [][Next]_vars

(***************************************************************************)
(* The coercion of one column value, for every driver type, override and   *)
(* token of the model: the series created for the column (sql.go 148-198)  *)
(* and the value stored for it (sql.go 215-333).                           *)
(***************************************************************************)
ProbeDictates ==
  {<<>>} \cup {[n \in {"x"} |-> d] : d \in Dictates} \cup {[n \in {"y"} |-> Dictate("int64")]}

Probes ==
  {[ct |-> ColumnType("x", typ), dictate |-> d, database |-> db, raw |-> raw,
    series |-> "", val |-> Ok(NilCell)] :
     typ \in DriverTypes, d \in ProbeDictates, db \in {PostgreSQL, MySQL},
     raw \in {NULL} \cup {Raw(t) : t \in AllTokens}}

ProbeOptions(p) == SQLLoadOptions(NoCount, p.dictate, p.database)

Coerce ==
  /\ pc = "probe"
  /\ pc' = "done"
  /\ probe' = [probe EXCEPT
                 !.series = NewSeriesFor(ProbeOptions(probe), probe.ct),
                 !.val = ScanValue(ProbeOptions(probe), probe.database, probe.ct, probe.raw)]
  /\ UNCHANGED <<call, cancelled, options, init, row, df, ret, scanned, forced,
                 tableOps, lockHeld, sqlVars, jsonVars>>

InitCoerce ==
  /\ pc = "probe"
  /\ Idle
  /\ probe \in Probes

NextCoerce == Coerce

SpecCoerce == InitCoerce /\ [][NextCoerce]_vars

(***************************************************************************)
(* Properties.                                                             *)
(***************************************************************************)
IsSQL == call = "LoadFromSQL"
IsJSON == call = "LoadFromJSON"
Succeeded == pc = "done" /\ ret.state = "returned" /\ ret.err = NilErr

\* C1: when LoadFromSQL returns successfully, the returned table's row count
\* equals the number of rows scanned from the cursor, both without a
\* KnownRowCount and with a KnownRowCount K >= the number of rows scanned
\* (the unused preallocated rows are removed before the return).
C1_RowCountIsRowsScanned ==
  (IsSQL /\ Succeeded /\ (init = NoCount \/ row <= init))
    => NRows(ret.df) = row

\* C2: the cancellation signal is checked before each row: once the context
\* is cancelled, the next turn of the row loop returns the cancellation error
\* and scans, coerces and writes nothing.
C2_CancelledBeforeRow ==
  [][(cancelled /\ pc \in {"sql", "json"})
       => (/\ pc' = "done"
           /\ ret' = Abort(CtxErr)
           /\ scanned' = scanned
           /\ forced' = forced
           /\ df' = df)]_vars

\* C3 as stated: every mutation of the table made by an ingestion call
\* happens while the call holds the table's lock.
C3_MutationsUnderLock ==
  \A o \in tableOps : o.held

\* C3 as amended: the ingestion call never takes the table's lock itself;
\* every Append and UpdateRow it makes passes DontLock and runs with the lock
\* not held, and the lock is not held at any exit.
C3_WritesPassDontLock ==
  /\ ~lockHeld
  /\ \A o \in tableOps :
       /\ ~o.held
       /\ o.op \in {"Append", "UpdateRow"} => o.opts = DontLock

C3_Witness ==
  /\ Succeeded
  /\ row >= 2
  /\ {o.op : o \in tableOps} \cap {"Append", "UpdateRow"} = {"Append", "UpdateRow"}

\* C4: a call whose source yields zero rows returns the no-rows error and no
\* table.
C4_NoRowsError ==
  (pc = "done" /\ ret.state = "returned" /\ row = 0
     /\ ret.err \in {NilErr, ErrNoRows})
    => ret = Abort(ErrNoRows)

\* The value LoadFromSQL stores for column c of the i-th scanned row.
ScannedValue(i, c) == ScanValue(options, options.Database, c, scanned[i][c.Name])

\* The value LoadFromJSON stores for field n of the i-th decoded record.
DecodedValue(i, n) == FieldValue(options, n, parseObject(scanned[i])[n])

DecodedRow(i, names) ==
  [n \in names |->
     IF n \in DOMAIN parseObject(scanned[i]) /\ DecodedValue(i, n).set
     THEN DecodedValue(i, n).cell ELSE NilCell]

CoercionFailed == ret.err.msg = "can't force string"
UnknownFieldFailed == ret.err.msg = "unknown field encountered"

C5_State ==
  /\ ret.state # "running" => pc = "done"
  /\ ret.state = "returned" => (ret.df.nil <=> ret.err # NilErr)
  /\ (IsSQL /\ Succeeded) =>
       \A i \in 1..Len(scanned) : \A j \in DOMAIN cols :
         /\ ScannedValue(i, cols[j]).ok
         /\ ret.df.rows[i][cols[j].Name] = ScannedValue(i, cols[j]).cell
  /\ (IsJSON /\ Succeeded) =>
       \A i \in 1..Len(scanned) :
         /\ \A n \in DOMAIN parseObject(scanned[i]) \cap knownFields : DecodedValue(i, n).ok
         /\ ret.df.rows[i] = DecodedRow(i, knownFields)

C5_Step ==
  /\ pc = "done" => UNCHANGED vars
  /\ (pc = "idle" /\ pc' = "done") => ret'.df.nil
  /\ (pc = "sql" /\ row' = row + 1 /\ scanned' = scanned) =>
       (pc' = "done" /\ ret' = Abort(Err("scan error", -1, "")) /\ df' = df)
  /\ (pc = "sql" /\ row' = row + 1 /\ scanned' # scanned
        /\ \E j \in DOMAIN cols :
             ~ScanValue(options, options.Database, cols[j], scanned'[row'][cols[j].Name]).ok) =>
       (pc' = "done" /\ ret'.state = "returned" /\ ret'.df.nil
          /\ ret'.err.msg = "can't force string" /\ df' = df)
  /\ (pc = "sql" /\ pc' = "done" /\ row' = row /\ df' # df) => ret' = Return(df', NilErr)
  /\ (pc \in {"prepass", "json"} /\ cancelled) => (pc' = "done" /\ ret' = Abort(CtxErr) /\ df' = df)
  /\ (pc = "json" /\ ~cancelled /\ ~cancelled' /\ ItemAt(r, offset, 1) # 0
        /\ r[ItemAt(r, offset, 1)].kind = "malformed") =>
       (pc' = "done" /\ ret' = Abort(Err("decode error", -1, "")) /\ df' = df)
  /\ (pc = "json" /\ row' = row + 1 /\ row >= 1
        /\ \E n \in DOMAIN parseObject(scanned'[row']) :
             \/ n \in knownFields /\ ~FieldValue(options, n, parseObject(scanned'[row'])[n]).ok
             \/ n \notin knownFields /\ ~options.none /\ options.ErrorOnUnknownFields) =>
       (pc' = "done" /\ ret'.state = "returned" /\ ret'.df.nil
          /\ ret'.err.row = row /\ df' = df)

\* C5: every error raised during ingestion ends the call at once with a nil
\* table and a non-nil error: nothing runs after the failing row, a call never
\* returns both a table and an error, and a returned table holds, for every
\* row, exactly the successfully coerced values of the source row.
C5_ErrorsAbort == []C5_State /\ [][C5_Step]_vars

C5_Witness ==
  /\ IsSQL /\ pc = "done" /\ CoercionFailed
  /\ row = 2 /\ ret.df.nil /\ NRows(df) >= 1

\* The fields of the last decoded record that are not fields of the first.
LastUnknown == UnknownFields(parseObject(scanned[Len(scanned)]), knownFields)
Strict == ~options.none /\ options.ErrorOnUnknownFields
LastRowFailed == CoercionFailed \/ UnknownFieldFailed

\* The column set is the first record's field set; every record decoded
\* without an error is stored, its unknown fields dropped.
C6_ColumnsOfFirstRecord ==
  /\ (IsJSON /\ row >= 1) => knownFields = DOMAIN parseObject(r[1])
  /\ (IsJSON /\ row >= 1 /\ ret.state # "panicked") =>
       \A i \in 1..Len(scanned) :
         (i < Len(scanned) \/ ~LastRowFailed) =>
           (i <= NRows(df) /\ df.rows[i] = DecodedRow(i, knownFields))
  /\ (IsJSON /\ Succeeded) =>
       /\ Range(ret.df.names) = DOMAIN parseObject(r[1])
       /\ NRows(ret.df) = Len(r)

\* C6 as stated: in LoadFromJSON the column set is fixed by the first record;
\* a later record's field that is not a field of the first record is dropped
\* when ErrorOnUnknownFields is off, and makes the call fail with an
\* unknown-field error and no table when it is on.
C6_UnknownFieldError ==
  /\ C6_ColumnsOfFirstRecord
  /\ (IsJSON /\ Len(scanned) >= 2 /\ Strict /\ LastUnknown # {}) =>
       (pc = "done" /\ ret.state = "returned" /\ ret.df.nil
          /\ UnknownFieldFailed /\ ret.err.row = row - 1 /\ ret.err.field \in LastUnknown)

\* C6 as amended: with ErrorOnUnknownFields on, the record with the unknown
\* field makes the call fail with no table; the error is the unknown-field
\* error or, when a known field of the same record fails its coercion, that
\* field's coercion error (the fields are visited in map order).
C6_UnknownFieldFails ==
  /\ C6_ColumnsOfFirstRecord
  /\ (IsJSON /\ Len(scanned) >= 2 /\ Strict /\ LastUnknown # {}) =>
       /\ pc = "done" /\ ret.state = "returned" /\ ret.df.nil
       /\ ret.err.row = row - 1
       /\ \/ UnknownFieldFailed /\ ret.err.field \in LastUnknown
          \/ /\ CoercionFailed
             /\ ret.err.field \in knownFields \cap DOMAIN parseObject(scanned[Len(scanned)])
             /\ ~DecodedValue(Len(scanned), ret.err.field).ok

C6_Witness ==
  /\ IsJSON /\ pc = "done" /\ Strict
  /\ Len(scanned) >= 2 /\ LastUnknown # {}
  /\ UnknownFieldFailed /\ NRows(df) = Len(scanned) - 1

\* The i-th scanned row was written to the table.
Committed(i) ==
  /\ i <= Len(scanned)
  /\ ~(i = Len(scanned) /\ (CoercionFailed \/ ret.state = "panicked"))

\* C7: in LoadFromSQL a NULL column value is stored as nil and no coercion
\* (strconv parsing, comparison, ConverterFunc) runs for it, whatever the
\* column's override or driver type; a NULL never makes the row fail.
C7_NullStoredAsNil ==
  IsSQL =>
    /\ \A f \in forced : ~scanned[f.row + 1][f.field].null
    /\ \A i \in 1..Len(scanned) : \A j \in DOMAIN cols :
         (Committed(i) /\ scanned[i][cols[j].Name].null) =>
           (i <= NRows(df) /\ df.rows[i][cols[j].Name] = NilCell)
    /\ CoercionFailed => ~scanned[ret.err.row + 1][ret.err.field].null

C7_Witness ==
  /\ IsSQL /\ Succeeded /\ row = 2
  /\ \E j \in DOMAIN cols :
       /\ Dictated(options, cols[j].Name)
       /\ options.DictateDataType[cols[j].Name].k = "Converter"
       /\ scanned[2][cols[j].Name].null
       /\ ret.df.rows[2][cols[j].Name] = NilCell

\* The column of the coercion check is declared Int64 the boolean way (the
\* bool override, the BOOL driver type) or the integer way (the int64
\* override, an integer driver type).
ProbeDictated == Dictated(ProbeOptions(probe), probe.ct.Name)
BoolDeclared ==
  \/ ProbeDictated /\ probe.dictate[probe.ct.Name].k = "bool"
  \/ ~ProbeDictated /\ probe.ct.DatabaseTypeName \in BoolTypes
IntDeclared ==
  \/ ProbeDictated /\ probe.dictate[probe.ct.Name].k = "int64"
  \/ ~ProbeDictated /\ probe.ct.DatabaseTypeName \in IntTypes
Probed == pc = "done" /\ call = "" /\ probe # NoProbe

\* C8 as stated: in the query path every column declared Int64 (override
\* int64 or bool, or a driver type of the integer/boolean family) coerces
\* true/TRUE/True/1 to 1 and false/FALSE/False/0 to 0, and any other token
\* that is not a base-10 64-bit integer yields a coercion error.
C8_Int64TakesBooleanTokens ==
  (Probed /\ probe.series = "Int64" /\ ~probe.raw.null) =>
    /\ (BoolDeclared \/ IntDeclared)
    /\ IsTrueToken(probe.raw.s) => probe.val = OkBy(Cell("int64", T_1), probe.val.fn)
    /\ IsFalseToken(probe.raw.s) => probe.val = OkBy(Cell("int64", T_0), probe.val.fn)
    /\ (~IsTrueToken(probe.raw.s) /\ ~IsFalseToken(probe.raw.s)
          /\ ~ParseInt(probe.raw.s).ok) => ~probe.val.ok

\* C8 as amended: a column declared Int64 by the bool override or the BOOL
\* driver type coerces true/TRUE/True/1 to 1, false/FALSE/False/0 to 0 and
\* fails on every other token; a column declared Int64 by the int64 override
\* or an integer driver type stores the base-10 64-bit integer the token
\* denotes and fails on every other token, true and false included.
C8_BoolAndIntColumns ==
  Probed =>
    /\ probe.series = "Int64" <=> (BoolDeclared \/ IntDeclared)
    /\ (BoolDeclared /\ ~probe.raw.null) =>
         /\ IsTrueToken(probe.raw.s) => probe.val.ok /\ probe.val.cell = Cell("int64", T_1)
         /\ IsFalseToken(probe.raw.s) => probe.val.ok /\ probe.val.cell = Cell("int64", T_0)
         /\ (~IsTrueToken(probe.raw.s) /\ ~IsFalseToken(probe.raw.s)) =>
              probe.val = Fail("bool", "compare")
    /\ (IntDeclared /\ ~probe.raw.null) =>
         IF ParseInt(probe.raw.s).ok
         THEN probe.val.ok /\ probe.val.cell = Cell("int64", ParseInt(probe.raw.s).v)
         ELSE probe.val = Fail("Int", "ParseInt")

C8_Witness ==
  /\ Probed /\ probe.series = "Int64"
  /\ probe.ct.DatabaseTypeName = "INT8" /\ probe.dictate = <<>>
  /\ probe.raw = Raw(T_true) /\ ~probe.val.ok

InvalidDatabase == ~options.nil /\ options.Database \notin {PostgreSQL, MySQL}
\* What the statement object passed exposes.
ArgsOnly == stmt \in {"*sql.Stmt", "*mysql.Stmt"}
QueryText == stmt \in {"*sql.DB", "*mysql.DB"}
NoQueryContext == ~ArgsOnly /\ ~QueryText

\* The QueryContext form called is the one the statement object has: the
\* argument-only form of a prepared statement, else the query-text form with
\* options.Query.
C9_FormSelected ==
  (IsSQL /\ queried.form # "none") =>
    /\ ~NoQueryContext /\ ~InvalidDatabase
    /\ ArgsOnly => queried = [form |-> "args", query |-> ""]
    /\ QueryText => queried = [form |-> "query", query |-> options.Query]

\* C9 as stated: LoadFromSQL calls the QueryContext form the statement object
\* exposes, the argument-only form first; when the object exposes neither the
\* call returns an error to the caller, runs no query and returns no table.
C9_UnsupportedStatementError ==
  /\ C9_FormSelected
  /\ (IsSQL /\ NoQueryContext /\ ~InvalidDatabase) =>
       (pc = "done" /\ queried.form = "none" /\ ret.state = "returned"
          /\ ret.df.nil /\ ret.err # NilErr)

\* C9 as amended: when the object exposes neither form the call panics ("is
\* not a valid Stmt"): nothing is returned, no query is run, no table is
\* built; with an invalid Database option the call has already returned the
\* "invalid database" error.
C9_UnsupportedStatementPanics ==
  /\ C9_FormSelected
  /\ (IsSQL /\ NoQueryContext) =>
       /\ pc = "done" /\ queried.form = "none" /\ df.nil /\ ret.df.nil
       /\ IF InvalidDatabase THEN ret = Abort(Err("invalid database", -1, ""))
          ELSE ret = Panic("is not a valid Stmt")

C9_Witness ==
  /\ IsSQL /\ pc = "done" /\ NoQueryContext
  /\ ret.state = "panicked" /\ queried.form = "none"

\* The outcomes of LoadFromJSON on a stream, when the context is not cancelled.
RECURSIVE Outcomes(_, _, _)
Outcomes(S, stream, opts) ==
  IF S.pc = "done" THEN {S.ret}
  ELSE IF S.pc = "prepass" THEN Outcomes(PrepassToken(S, stream, FALSE), stream, opts)
  ELSE UNION {Outcomes(t, stream, opts) : t \in DecodeRow(S, stream, opts, FALSE)}

Large == ~options.none /\ options.LargeDataSet

\* The options of the call with the LargeDataSet switch the other way.
OtherSizing ==
  IF options.none THEN JSONLoadOptions(TRUE, <<>>, FALSE)
  ELSE [options EXCEPT !.LargeDataSet = ~options.LargeDataSet]

WellFormed == \A i \in 1..Len(r) : r[i].kind # "malformed"

\* The pre-pass leaves the number of top-level records (nested objects are
\* not counted) in init.Size and the stream at its start.
C10_PrepassCounts ==
  (IsJSON /\ Large /\ pc = "json") =>
    /\ init = Len(r)
    /\ tokenCount = 0
    /\ row = 0 => offset = 0

CommittedRows ==
  Len(scanned) -
    (IF pc = "done" /\ (LastRowFailed \/ ret.state = "panicked") THEN 1 ELSE 0)

\* The i-th row handed out, as coerced by the call.
CoercedRow(i) ==
  IF IsSQL THEN [n \in Range(ColNames(cols)) |->
                   LET j == CHOOSE k \in DOMAIN cols : cols[k].Name = n
                   IN  ScannedValue(i, cols[j]).cell]
  ELSE DecodedRow(i, knownFields)

FullyCoerced(i) ==
  IF IsSQL THEN \A j \in DOMAIN cols : ScannedValue(i, cols[j]).ok
  ELSE \A n \in DOMAIN parseObject(scanned[i]) \cap knownFields : DecodedValue(i, n).ok

NilRow == [n \in Range(df.names) |-> NilCell]

\* C11 as stated: a row is written only after every one of its fields was
\* coerced without error, so in every reachable state each row of the table
\* is a fully coerced source row (no other row is present), and a coercion
\* error on row i leaves the table holding exactly rows 0..i-1.
C11_RowsCoercedOrAbsent ==
  ((IsSQL \/ IsJSON) /\ ~df.nil) =>
    /\ NRows(df) = CommittedRows
    /\ \A i \in 1..NRows(df) : FullyCoerced(i) /\ df.rows[i] = CoercedRow(i)

\* C11 as amended: the rows below the number of committed source rows are
\* those rows, each fully coerced; a row whose coercion failed leaves no
\* value in the table; any further row is a preallocated row of nils, and
\* without preallocation there is none.
C11_AllOrNothing ==
  ((IsSQL \/ IsJSON) /\ ~df.nil) =>
    /\ CommittedRows <= NRows(df)
    /\ \A i \in 1..CommittedRows : FullyCoerced(i) /\ df.rows[i] = CoercedRow(i)
    /\ \A i \in (CommittedRows + 1)..NRows(df) : df.rows[i] = NilRow
    /\ init = NoCount => NRows(df) = CommittedRows

\* The second row fails in its second column after its first column was
\* coerced; the first row stays.
C11_Witness ==
  /\ IsSQL /\ pc = "done" /\ CoercionFailed
  /\ Len(scanned) = 2 /\ Len(cols) = 2
  /\ ret.err.field = cols[2].Name
  /\ ~scanned[2][cols[1].Name].null /\ ScannedValue(2, cols[1]).ok
  /\ CommittedRows = 1 /\ NRows(df) >= 1 /\ df.rows[1] = CoercedRow(1)

\* This step of LoadFromSQL calls UpdateRow(row-1, ...): a row was handed
\* out and every field of it was coerced.
UpdateRowCalled ==
  /\ IsSQL /\ pc = "sql" /\ row' = row + 1
  /\ scanned' # scanned
  /\ ret'.err.msg # "can't force string"

\* This step of LoadFromSQL runs the trimming loop.
TrimCalled ==
  /\ IsSQL /\ pc = "sql" /\ pc' = "done" /\ row' = row
  /\ ret'.err = NilErr /\ init # NoCount

C12_Step ==
  /\ UpdateRowCalled => (row' - 1 >= 0 /\ row' - 1 < NRows(df'))
  /\ TrimCalled => \A k \in 1..Excess(init, df) : NRows(df) - k >= 0

\* C12: in LoadFromSQL every UpdateRow(row-1, ...) call targets an index
\* strictly below the table's current row count, for every KnownRowCount K
\* (K = 0 included) and every number M of rows the cursor yields (M > K
\* included), and the trimming loop never calls Remove with a negative index.
C12_IndicesInRange == [][C12_Step]_vars

====
